---- MODULE Spec2Model ----
(***************************************************************************)
(* A model of the frida-node binding core:                                 *)
(*   src/src/uv_context.cc  the script-world context (UVContext)           *)
(*   src/src/runtime.cc     the runtime container (Runtime)                *)
(*   src/src/session.cc     the Session wrapper and its operations         *)
(* Spec / FairSpec model the UVContext queue with its producer threads,    *)
(* the script thread's drain and Runtime's destructor; SessionSpec models  *)
(* the Session wrapper, its bound methods and its asynchronous operations. *)
(***************************************************************************)
EXTENDS Integers, Sequences, FiniteSets, TLC

\* ------------------------------------------------------------------ bounds
NumProducers == 2
MaxItems == 3

Producers == 1..NumProducers
Items == 1..MaxItems

VARIABLES
  \* UVContext (uv_context.cc)
  pending_,       \* the GSList of queued work, head first
  mutex_,         \* "free", "script" or "producer" (the producer inside its critical section)
  asyncPending,   \* uv_async_send was called and the loop callback has not run yet
  waiters,        \* producers blocked in g_cond_wait on cond_
  usage_count_,   \* UVContext::usage_count_
  asyncRef,       \* async_ is referenced against the loop
  \* producer threads
  pc,             \* where each producer is inside Schedule / Perform
  cur,            \* the work item of the producer's current call
  \* script thread
  spc,            \* where the script thread is inside ProcessPending
  curWork,        \* the work item popped by ProcessPending
  \* work items
  kind,           \* "none", "plain" (Schedule) or "perform" (Perform's closure)
  itemState,      \* "new", "queued", "running", "done"
  finished,       \* Perform's local flag, per Perform call
  execCount,      \* how often the item's f was invoked
  schedReturned,  \* the Schedule call of the item has returned
  perfReturned,   \* the Perform call of the item has returned
  appendLog,      \* the items in the order of their queue appends
  child,          \* the item g that the item's f hands to Schedule or Perform, if any
  \* Runtime (runtime.cc)
  dtorStep,       \* how many steps of Runtime::~Runtime have run
  jsonLive,       \* json_module_, json_stringify_, json_parse_ hold references
  dataLive,       \* data_ holds its reference
  glibAlive,      \* glib_context_ has not been deleted
  uvAlive,        \* uv_context_ has not been deleted
  data_,          \* the entries of the hash table data_
  lastSet,        \* per id, the value of the latest SetDataPointer call, NULL before any
  got,            \* the id and the return value of the GetDataPointer call just made
  ctorPersistent, \* the Persistent<Function> that Session::Init allocates with new
  \* Session::EnableDebugger with a number argument
  portArg,        \* the integer value of args[0]
  port_,          \* EnableDebuggerOperation::port_
  portResult,     \* what the call did: threw, or scheduled the operation
  \* GLibContext: the native-world queue
  glibPending,    \* work posted to the native thread, head first
  \* native handles (FridaSession)
  refcount,       \* the GObject reference count of each handle
  nativeRef,      \* the native library still holds its own reference
  \* Session wrappers and their monitors (session.cc)
  wrappers,       \* per wrapper: state, handle, references taken and given back
  monitor,        \* per wrapper: st "none", "enabled", "done"; its raises and lowers
                  \* of the usage counter, and the runs of its signal handler
  increases,      \* calls of IncreaseUsage so far
  decreases,      \* calls of DecreaseUsage so far
  \* operations (session.cc, operation.h)
  ops,            \* per operation descriptor: kind, target, state, promise
  \* what the last call from script produced
  lastMethod,     \* the bound function called last
  thrown,         \* the exception it threw, or "none"
  retval          \* what it returned: "none", "object", "promise"

uvVars == <<pending_, mutex_, asyncPending, waiters, pc, cur, spc, curWork,
            kind, itemState, finished, execCount, schedReturned, perfReturned,
            appendLog, child>>
usageVars == <<usage_count_, asyncRef>>
runtimeVars == <<dtorStep, jsonLive, dataLive, glibAlive, uvAlive>>
sessionVars == <<glibPending, refcount, nativeRef, wrappers, monitor, increases,
                 decreases, ops, lastMethod, thrown, retval>>
registryVars == <<data_, lastSet, got, ctorPersistent>>
portVars == <<portArg, port_, portResult>>
vars == <<uvVars, usageVars, runtimeVars, registryVars, portVars, sessionVars>>

\* NULL: no work item
NoItem == 0

\* ------------------------------------------------------------ UVContext
\* A plausible slip: g_slist_prepend, the cheaper call, in place of g_slist_append.
EnqueueFront(q, w) == <<w>> \o q

\* g_slist_append(pending_, work)
Enqueue(q, w) == Append(q, w)

InitUV ==
  /\ pending_ = <<>>
  /\ mutex_ = "free"
  /\ asyncPending = FALSE
  /\ waiters = {}
  /\ usage_count_ = 0
  /\ asyncRef = FALSE
  /\ pc = [p \in Producers |-> "idle"]
  /\ cur = [p \in Producers |-> NoItem]
  /\ spc = "loop"
  /\ curWork = NoItem
  /\ kind = [i \in Items |-> "none"]
  /\ itemState = [i \in Items |-> "new"]
  /\ finished = [i \in Items |-> FALSE]
  /\ execCount = [i \in Items |-> 0]
  /\ schedReturned = [i \in Items |-> FALSE]
  /\ perfReturned = [i \in Items |-> FALSE]
  /\ appendLog = <<>>
  /\ child = [i \in Items |-> NoItem]

InitRuntime ==
  /\ dtorStep = 0
  /\ jsonLive = TRUE
  /\ dataLive = TRUE
  /\ glibAlive = TRUE
  /\ uvAlive = TRUE

FreshItems == {i \in Items : kind[i] = "none"}

\* A producer thread enters Schedule(f) or Perform(f): the work object is allocated.
BeginCall(p, k) ==
  /\ dtorStep = 0
  /\ pc[p] = "idle"
  /\ FreshItems # {}
  /\ LET i == CHOOSE j \in FreshItems : \A l \in FreshItems : j <= l IN
       /\ kind' = [kind EXCEPT ![i] = k]
       /\ cur' = [cur EXCEPT ![p] = i]
  /\ pc' = [pc EXCEPT ![p] = "s_lock"]
  /\ UNCHANGED <<pending_, mutex_, asyncPending, waiters, spc, curWork, itemState,
                 finished, execCount, schedReturned, perfReturned, appendLog, child>>
  /\ UNCHANGED <<usageVars, runtimeVars, registryVars, portVars, sessionVars>>

\* Schedule: UV_CONTEXT_LOCK()
ScheduleLock(p) ==
  /\ pc[p] = "s_lock"
  /\ mutex_ = "free"
  /\ mutex_' = "producer"
  /\ pc' = [pc EXCEPT ![p] = "s_append"]
  /\ UNCHANGED <<pending_, asyncPending, waiters, cur, spc, curWork, kind, itemState,
                 finished, execCount, schedReturned, perfReturned, appendLog, child>>
  /\ UNCHANGED <<usageVars, runtimeVars, registryVars, portVars, sessionVars>>

\* Schedule: pending_ = g_slist_append(pending_, work); UV_CONTEXT_UNLOCK()
ScheduleAppend(p) ==
  /\ pc[p] = "s_append"
  /\ pending_' = Enqueue(pending_, cur[p])
  /\ appendLog' = Append(appendLog, cur[p])
  /\ itemState' = [itemState EXCEPT ![cur[p]] = "queued"]
  /\ mutex_' = "free"
  /\ pc' = [pc EXCEPT ![p] = "s_send"]
  /\ UNCHANGED <<asyncPending, waiters, cur, spc, curWork, kind,
                 finished, execCount, schedReturned, perfReturned, child>>
  /\ UNCHANGED <<usageVars, runtimeVars, registryVars, portVars, sessionVars>>

\* Schedule: uv_async_send(&async_), and Schedule returns
ScheduleSend(p) ==
  /\ pc[p] = "s_send"
  /\ asyncPending' = TRUE
  /\ schedReturned' = [schedReturned EXCEPT ![cur[p]] = TRUE]
  /\ IF kind[cur[p]] = "perform"
       THEN /\ pc' = [pc EXCEPT ![p] = "p_lock"]
            /\ cur' = cur
       ELSE /\ pc' = [pc EXCEPT ![p] = "idle"]
            /\ cur' = [cur EXCEPT ![p] = NoItem]
  /\ UNCHANGED <<pending_, mutex_, waiters, spc, curWork, kind, itemState,
                 finished, execCount, perfReturned, appendLog, child>>
  /\ UNCHANGED <<usageVars, runtimeVars, registryVars, portVars, sessionVars>>

\* Perform: UV_CONTEXT_LOCK() after Schedule returned
PerformLock(p) ==
  /\ pc[p] = "p_lock"
  /\ mutex_ = "free"
  /\ mutex_' = "producer"
  /\ pc' = [pc EXCEPT ![p] = "p_check"]
  /\ UNCHANGED <<pending_, asyncPending, waiters, cur, spc, curWork, kind, itemState,
                 finished, execCount, schedReturned, perfReturned, appendLog, child>>
  /\ UNCHANGED <<usageVars, runtimeVars, registryVars, portVars, sessionVars>>

\* Perform: while (!finished) UV_CONTEXT_WAIT(); UV_CONTEXT_UNLOCK()
PerformCheck(p) ==
  /\ pc[p] = "p_check"
  /\ mutex_' = "free"
  /\ IF finished[cur[p]]
       THEN /\ pc' = [pc EXCEPT ![p] = "idle"]
            /\ perfReturned' = [perfReturned EXCEPT ![cur[p]] = TRUE]
            /\ cur' = [cur EXCEPT ![p] = NoItem]
            /\ waiters' = waiters
       ELSE /\ pc' = [pc EXCEPT ![p] = "p_wait"]
            /\ waiters' = waiters \cup {p}
            /\ UNCHANGED <<perfReturned, cur>>
  /\ UNCHANGED <<pending_, asyncPending, spc, curWork, kind, itemState,
                 finished, execCount, schedReturned, appendLog, child>>
  /\ UNCHANGED <<usageVars, runtimeVars, registryVars, portVars, sessionVars>>

\* A plausible slip: "if (!finished) wait" - the woken caller leaves without re-checking.
PerformWokenNoRecheck(p) ==
  /\ pc[p] = "p_woken"
  /\ mutex_ = "free"
  /\ pc' = [pc EXCEPT ![p] = "idle"]
  /\ perfReturned' = [perfReturned EXCEPT ![cur[p]] = TRUE]
  /\ cur' = [cur EXCEPT ![p] = NoItem]
  /\ UNCHANGED <<pending_, mutex_, asyncPending, waiters, spc, curWork, kind, itemState,
                 finished, execCount, schedReturned, appendLog, child>>
  /\ UNCHANGED <<usageVars, runtimeVars, registryVars, portVars, sessionVars>>

\* Perform: g_cond_wait returns with the mutex reacquired; the while loop tests again
PerformWoken(p) ==
  /\ pc[p] = "p_woken"
  /\ mutex_ = "free"
  /\ mutex_' = "producer"
  /\ pc' = [pc EXCEPT ![p] = "p_check"]
  /\ UNCHANGED <<pending_, asyncPending, waiters, cur, spc, curWork, kind, itemState,
                 finished, execCount, schedReturned, perfReturned, appendLog, child>>
  /\ UNCHANGED <<usageVars, runtimeVars, registryVars, portVars, sessionVars>>

\* The loop runs the async callback (ProcessPendingWrapper -> ProcessPending); libuv
\* clears the handle's pending flag first, so sends made before it are coalesced.
AsyncCallback ==
  /\ dtorStep = 0
  /\ spc = "loop"
  /\ asyncPending
  /\ asyncPending' = FALSE
  /\ spc' = "pp_lock"
  /\ UNCHANGED <<pending_, mutex_, waiters, pc, cur, curWork, kind, itemState,
                 finished, execCount, schedReturned, perfReturned, appendLog, child>>
  /\ UNCHANGED <<usageVars, runtimeVars, registryVars, portVars, sessionVars>>

\* ProcessPending: the first UV_CONTEXT_LOCK()
PPLock ==
  /\ spc = "pp_lock"
  /\ mutex_ = "free"
  /\ mutex_' = "script"
  /\ spc' = "pp_check"
  /\ UNCHANGED <<pending_, asyncPending, waiters, pc, cur, curWork, kind, itemState,
                 finished, execCount, schedReturned, perfReturned, appendLog, child>>
  /\ UNCHANGED <<usageVars, runtimeVars, registryVars, portVars, sessionVars>>

\* A plausible slip: the work item is called before the lock is released.
PPCheckKeepsLock ==
  /\ spc = "pp_check"
  /\ IF pending_ # <<>>
       THEN /\ curWork' = Head(pending_)
            /\ pending_' = Tail(pending_)
            /\ itemState' = [itemState EXCEPT ![Head(pending_)] = "running"]
            /\ execCount' = [execCount EXCEPT ![Head(pending_)] = @ + 1]
            /\ spc' = "run"
            /\ mutex_' = "script"
       ELSE /\ spc' = "loop"
            /\ mutex_' = "free"
            /\ UNCHANGED <<curWork, pending_, itemState, execCount>>
  /\ UNCHANGED <<asyncPending, waiters, pc, cur, kind,
                 finished, schedReturned, perfReturned, appendLog, child>>
  /\ UNCHANGED <<usageVars, runtimeVars, registryVars, portVars, sessionVars>>

\* ProcessPending: while (pending_ != NULL) { pop the head; UNLOCK; (*work)() is entered }
\* or, on an empty queue, UNLOCK and return to the loop.
PPCheck ==
  /\ spc = "pp_check"
  /\ mutex_' = "free"
  /\ IF pending_ # <<>>
       THEN /\ curWork' = Head(pending_)
            /\ pending_' = Tail(pending_)
            /\ itemState' = [itemState EXCEPT ![Head(pending_)] = "running"]
            /\ execCount' = [execCount EXCEPT ![Head(pending_)] = @ + 1]
            /\ spc' = "run"
       ELSE /\ spc' = "loop"
            /\ UNCHANGED <<curWork, pending_, itemState, execCount>>
  /\ UNCHANGED <<asyncPending, waiters, pc, cur, kind,
                 finished, schedReturned, perfReturned, appendLog, child>>
  /\ UNCHANGED <<usageVars, runtimeVars, registryVars, portVars, sessionVars>>

\* The running f calls Schedule(g) (k = "plain") or Perform(g) (k = "perform") on the
\* context it runs on, at most once: the work object of g is allocated.
NestedBegin(k) ==
  /\ spc = "run"
  /\ child[curWork] = NoItem
  /\ FreshItems # {}
  /\ LET g == CHOOSE j \in FreshItems : \A l \in FreshItems : j <= l IN
       /\ kind' = [kind EXCEPT ![g] = k]
       /\ child' = [child EXCEPT ![curWork] = g]
  /\ spc' = "n_lock"
  /\ UNCHANGED <<pending_, mutex_, asyncPending, waiters, pc, cur, curWork, itemState,
                 finished, execCount, schedReturned, perfReturned, appendLog>>
  /\ UNCHANGED <<usageVars, runtimeVars, registryVars, portVars, sessionVars>>

\* Schedule on the script thread: UV_CONTEXT_LOCK()
NestedLock ==
  /\ spc = "n_lock"
  /\ mutex_ = "free"
  /\ mutex_' = "script"
  /\ spc' = "n_append"
  /\ UNCHANGED <<pending_, asyncPending, waiters, pc, cur, curWork, kind, itemState,
                 finished, execCount, schedReturned, perfReturned, appendLog, child>>
  /\ UNCHANGED <<usageVars, runtimeVars, registryVars, portVars, sessionVars>>

\* Schedule on the script thread: g_slist_append; UV_CONTEXT_UNLOCK()
NestedAppend ==
  /\ spc = "n_append"
  /\ pending_' = Enqueue(pending_, child[curWork])
  /\ appendLog' = Append(appendLog, child[curWork])
  /\ itemState' = [itemState EXCEPT ![child[curWork]] = "queued"]
  /\ mutex_' = "free"
  /\ spc' = "n_send"
  /\ UNCHANGED <<asyncPending, waiters, pc, cur, curWork, kind,
                 finished, execCount, schedReturned, perfReturned, child>>
  /\ UNCHANGED <<usageVars, runtimeVars, registryVars, portVars, sessionVars>>

\* Schedule on the script thread: uv_async_send, and Schedule returns - into f, or
\* into Perform, which goes on to its UV_CONTEXT_LOCK().
NestedSend ==
  /\ spc = "n_send"
  /\ asyncPending' = TRUE
  /\ schedReturned' = [schedReturned EXCEPT ![child[curWork]] = TRUE]
  /\ spc' = IF kind[child[curWork]] = "perform" THEN "sp_lock" ELSE "run"
  /\ UNCHANGED <<pending_, mutex_, waiters, pc, cur, curWork, kind, itemState,
                 finished, execCount, perfReturned, appendLog, child>>
  /\ UNCHANGED <<usageVars, runtimeVars, registryVars, portVars, sessionVars>>

\* Perform on the script thread: UV_CONTEXT_LOCK()
SelfPerformLock ==
  /\ spc = "sp_lock"
  /\ mutex_ = "free"
  /\ mutex_' = "script"
  /\ spc' = "sp_check"
  /\ UNCHANGED <<pending_, asyncPending, waiters, pc, cur, curWork, kind, itemState,
                 finished, execCount, schedReturned, perfReturned, appendLog, child>>
  /\ UNCHANGED <<usageVars, runtimeVars, registryVars, portVars, sessionVars>>

\* Perform on the script thread: while (!finished) UV_CONTEXT_WAIT(). The thread that
\* would run the closure is the one that waits: in "sp_wait" it sits in g_cond_wait.
SelfPerformCheck ==
  /\ spc = "sp_check"
  /\ mutex_' = "free"
  /\ IF finished[child[curWork]]
       THEN /\ spc' = "run"
            /\ perfReturned' = [perfReturned EXCEPT ![child[curWork]] = TRUE]
       ELSE /\ spc' = "sp_wait"
            /\ UNCHANGED perfReturned
  /\ UNCHANGED <<pending_, asyncPending, waiters, pc, cur, curWork, kind, itemState,
                 finished, execCount, schedReturned, appendLog, child>>
  /\ UNCHANGED <<usageVars, runtimeVars, registryVars, portVars, sessionVars>>

\* f() returns. A Schedule item is then deleted; a Perform closure goes on to its
\* UV_CONTEXT_LOCK().
WorkReturns ==
  /\ spc = "run"
  /\ itemState' = [itemState EXCEPT ![curWork] = "done"]
  /\ spc' = IF kind[curWork] = "perform" THEN "w_lock" ELSE "pp_relock"
  /\ UNCHANGED <<pending_, mutex_, asyncPending, waiters, pc, cur, curWork, kind,
                 finished, execCount, schedReturned, perfReturned, appendLog, child>>
  /\ UNCHANGED <<usageVars, runtimeVars, registryVars, portVars, sessionVars>>

\* Perform's closure: UV_CONTEXT_LOCK()
ClosureLock ==
  /\ spc = "w_lock"
  /\ mutex_ = "free"
  /\ mutex_' = "script"
  /\ spc' = "w_signal"
  /\ UNCHANGED <<pending_, asyncPending, waiters, pc, cur, curWork, kind, itemState,
                 finished, execCount, schedReturned, perfReturned, appendLog, child>>
  /\ UNCHANGED <<usageVars, runtimeVars, registryVars, portVars, sessionVars>>

\* Perform's closure: finished = true; UV_CONTEXT_SIGNAL(); UV_CONTEXT_UNLOCK().
\* g_cond_signal unblocks at least one of the threads waiting on cond_, whichever.
ClosureSignal ==
  /\ spc = "w_signal"
  /\ finished' = [finished EXCEPT ![curWork] = TRUE]
  /\ mutex_' = "free"
  /\ spc' = "pp_relock"
  /\ IF waiters = {}
       THEN UNCHANGED <<waiters, pc>>
       ELSE \E woken \in (SUBSET waiters) \ {{}} :
              /\ waiters' = waiters \ woken
              /\ pc' = [p \in Producers |-> IF p \in woken THEN "p_woken" ELSE pc[p]]
  /\ UNCHANGED <<pending_, asyncPending, cur, curWork, kind, itemState,
                 execCount, schedReturned, perfReturned, appendLog, child>>
  /\ UNCHANGED <<usageVars, runtimeVars, registryVars, portVars, sessionVars>>

\* A plausible slip: "if (pending_ != NULL)" - one item per wake-up, then return.
PPRelockOnce ==
  /\ spc = "pp_relock"
  /\ mutex_ = "free"
  /\ spc' = "loop"
  /\ curWork' = NoItem
  /\ UNCHANGED <<pending_, mutex_, asyncPending, waiters, pc, cur, kind, itemState,
                 finished, execCount, schedReturned, perfReturned, appendLog, child>>
  /\ UNCHANGED <<usageVars, runtimeVars, registryVars, portVars, sessionVars>>

\* ProcessPending: delete work; UV_CONTEXT_LOCK(); back to the while test
PPRelock ==
  /\ spc = "pp_relock"
  /\ mutex_ = "free"
  /\ mutex_' = "script"
  /\ spc' = "pp_check"
  /\ curWork' = NoItem
  /\ UNCHANGED <<pending_, asyncPending, waiters, pc, cur, kind, itemState,
                 finished, execCount, schedReturned, perfReturned, appendLog, child>>
  /\ UNCHANGED <<usageVars, runtimeVars, registryVars, portVars, sessionVars>>

\* -------------------------------------------------------------- Runtime
\* the ids under which the classes register: SESSION_DATA_CONSTRUCTOR and its like
DataIds == {"session:ctor", "script:ctor", "device:ctor"}
\* void* values: NULL, the Persistent that Session::Init allocates, another pointer
DataValues == {"NULL", "ctor", "p1"}

NoGet == [id |-> "none", value |-> "NULL"]

\* Runtime::Runtime: data_(g_hash_table_new_full(g_str_hash, g_str_equal, NULL, NULL))
InitRegistry ==
  /\ data_ = {}
  /\ lastSet = [id \in DataIds |-> "NULL"]
  /\ got = NoGet
  /\ ctorPersistent = "unallocated"

\* g_hash_table_lookup: the value of the entry whose key is g_str_equal to id, or NULL
Lookup(table, id) ==
  IF \E e \in table : e.key = id
    THEN (CHOOSE e \in table : e.key = id).value
    ELSE "NULL"

\* A plausible slip: an id that is already present keeps its first value.
InsertKeepsFirst(table, id, v) ==
  IF \E e \in table : e.key = id
    THEN table
    ELSE table \cup {[key |-> id, value |-> v]}

\* g_hash_table_insert: a key that is already present gets the new value
Insert(table, id, v) ==
  {e \in table : e.key # id} \cup {[key |-> id, value |-> v]}

\* Runtime::GetDataPointer
GetDataPointer(id) ==
  /\ dtorStep = 0
  /\ got' = [id |-> id, value |-> Lookup(data_, id)]
  /\ UNCHANGED <<data_, lastSet, ctorPersistent>>
  /\ UNCHANGED <<uvVars, usageVars, runtimeVars, portVars, sessionVars>>

\* Runtime::SetDataPointer
SetDataPointer(id, v) ==
  /\ dtorStep = 0
  /\ data_' = Insert(data_, id, v)
  /\ lastSet' = [lastSet EXCEPT ![id] = v]
  /\ got' = NoGet
  /\ UNCHANGED ctorPersistent
  /\ UNCHANGED <<uvVars, usageVars, runtimeVars, portVars, sessionVars>>

\* Session::Init, its last statement: runtime->SetDataPointer(SESSION_DATA_CONSTRUCTOR,
\* new Persistent<Function>(isolate, ctor))
SessionInit ==
  /\ dtorStep = 0
  /\ ctorPersistent = "unallocated"
  /\ ctorPersistent' = "live"
  /\ data_' = Insert(data_, "session:ctor", "ctor")
  /\ lastSet' = [lastSet EXCEPT !["session:ctor"] = "ctor"]
  /\ got' = NoGet
  /\ UNCHANGED <<uvVars, usageVars, runtimeVars, portVars, sessionVars>>

\* A plausible slip: the two deletes of ~Runtime in the other order.
DtorOrderSwapped == <<"json", "data", "uv", "glib">>

\* Runtime::~Runtime, statement by statement: the three Reset() calls,
\* g_hash_table_unref(data_), delete glib_context_, delete uv_context_.
DtorOrder == <<"json", "data", "glib", "uv">>

\* The destructor runs on the script thread, outside ProcessPending, with no producer
\* inside a call on the context.
DtorStep ==
  /\ dtorStep < Len(DtorOrder)
  /\ spc = "loop"
  /\ \A p \in Producers : pc[p] = "idle"
  /\ dtorStep' = dtorStep + 1
  /\ LET what == DtorOrder[dtorStep + 1] IN
       /\ jsonLive' = IF what = "json" THEN FALSE ELSE jsonLive
       /\ dataLive' = IF what = "data" THEN FALSE ELSE dataLive
       /\ glibAlive' = IF what = "glib" THEN FALSE ELSE glibAlive
       /\ uvAlive' = IF what = "uv" THEN FALSE ELSE uvAlive
       /\ data_' = IF what = "data" THEN {} ELSE data_
  /\ UNCHANGED <<lastSet, got, ctorPersistent>>
  /\ UNCHANGED <<uvVars, usageVars, portVars, sessionVars>>

\* ------------------------------------------------- Session (session.cc)
MaxWrappers == 2
MaxOps == 1
\* the bound functions look at args[0] and args[1] and at no argument beyond
MaxArgs == 2

WrapperIds == 1..MaxWrappers
OpIds == 1..MaxOps

\* GError* error_ == NULL
NoError == "NULL"
\* the messages a native finish function may report
NativeErrors == {"boom", "not attached"}

\* v8 values as the bound functions see them: IsString, IsNull, IsNumber, IsExternal.
\* There is one native session handle; every External carries it.
ArgValues == {"string", "null", "number", "external"}
ArgLists == UNION {[1..n -> ArgValues] : n \in 0..MaxArgs}

NoWrapper == [st |-> "none", refs |-> 0, unrefs |-> 0, unrefOn |-> "none"]
NoOp == [kind |-> "none", w |-> 0, st |-> "none", error |-> NoError,
         promise |-> "none", value |-> "none", resolves |-> 0, rejects |-> 0,
         acquired |-> 0, released |-> 0, resultCalls |-> 0, script |-> <<>>]

InitSession ==
  /\ glibPending = <<>>
  /\ refcount = 1
  /\ nativeRef = TRUE
  /\ wrappers = [w \in WrapperIds |-> NoWrapper]
  /\ monitor = [w \in WrapperIds |-> [st |-> "none", ups |-> 0, downs |-> 0, runs |-> 0]]
  /\ increases = 0
  /\ decreases = 0
  /\ ops = [o \in OpIds |-> NoOp]
  /\ lastMethod = "none"
  /\ thrown = "none"
  /\ retval = "none"

\* what the Session actions leave alone of the UVContext and the Runtime
uvRest == <<mutex_, asyncPending, waiters, pc, cur, spc, curWork, kind, itemState,
            finished, execCount, schedReturned, perfReturned, appendLog, child>>

\* the usage counter and the loop reference of async_, as one value
Usage == [count |-> usage_count_, ref |-> asyncRef]

\* UVContext::IncreaseUsage: if (++usage_count_ == 1) uv_ref(&async_)
IncreaseUsage(u) ==
  [count |-> u.count + 1, ref |-> IF u.count + 1 = 1 THEN TRUE ELSE u.ref]

\* A plausible slip: "if (--usage_count_ == 1)", the new value tested instead of the old.
DecreaseUsagePre(u) ==
  [count |-> u.count - 1, ref |-> IF u.count - 1 = 1 THEN FALSE ELSE u.ref]

\* UVContext::DecreaseUsage: if (usage_count_-- == 1) uv_unref(&async_)
DecreaseUsage(u) ==
  [count |-> u.count - 1, ref |-> IF u.count = 1 THEN FALSE ELSE u.ref]

\* control is back in the event loop: no call from script is returning
NoCall ==
  /\ lastMethod' = "none"
  /\ thrown' = "none"
  /\ retval' = "none"

SetUsage(u) ==
  /\ usage_count_' = u.count
  /\ asyncRef' = u.ref

FreeWrappers == {w \in WrapperIds : wrappers[w].st = "none"}
FreeOps == {o \in OpIds : ops[o].st = "none"}
Lowest(S) == CHOOSE x \in S : \A y \in S : x <= y
InFlight(o) == ops[o].st \in {"scheduled", "begun", "ended"}

\* isolate->ThrowException(Exception::TypeError(...)); return;
ThrowTypeError(m) ==
  /\ lastMethod' = m
  /\ thrown' = "TypeError"
  /\ retval' = "none"
  /\ UNCHANGED <<glibPending, refcount, nativeRef, wrappers, monitor, increases,
                 decreases, ops>>
  /\ UNCHANGED <<pending_, uvRest, usageVars, runtimeVars, registryVars, portVars>>

\* A plausible slip: the argument count not compared for equality.
NewArgsOkAtLeastOne(args) == ~(Len(args) < 1 \/ ~(args[1] = "external"))

\* Session::New: !(args.Length() != 1 || !args[0]->IsExternal())
NewArgsOk(args) == ~(Len(args) # 1 \/ ~(args[1] = "external"))

\* A plausible slip: the constructor forgets g_object_ref(handle_).
SessionCtorNoRef(rc) == rc

\* Session::Session: g_object_ref(handle_)
SessionCtor(rc) == rc + 1

\* Session::New on a construct call: the argument check, new Session(handle, runtime),
\* Wrap, the events property, and the usage monitor enabled on the wrapper
\* (UsageMonitor::Enable raises the script-world usage counter).
ConstructCall(args) ==
  IF ~NewArgsOk(args)
    THEN ThrowTypeError("Session")
    ELSE /\ FreeWrappers # {}
         /\ nativeRef
         /\ LET w == Lowest(FreeWrappers)
                rc == SessionCtor(refcount)
            IN /\ refcount' = rc
               /\ wrappers' = [wrappers EXCEPT ![w] =
                    [st |-> "alive", refs |-> rc - refcount,
                     unrefs |-> 0, unrefOn |-> "none"]]
               /\ monitor' = [monitor EXCEPT ![w].st = "enabled", ![w].ups = @ + 1]
         /\ SetUsage(IncreaseUsage(Usage))
         /\ increases' = increases + 1
         /\ lastMethod' = "Session"
         /\ thrown' = "none"
         /\ retval' = "object"
         /\ UNCHANGED <<glibPending, nativeRef, decreases, ops>>
         /\ UNCHANGED <<pending_, uvRest, runtimeVars, registryVars, portVars>>

\* Session::New(const FunctionCallbackInfo&): a construct call, or a plain call that
\* re-enters the constructor through args.Callee()->NewInstance(0, NULL).
SessionNew(isConstructCall, args) ==
  IF isConstructCall THEN ConstructCall(args) ELSE ConstructCall(<<>>)

\* Session::New(gpointer, Runtime*): ctor->NewInstance(1, { External::New(handle) })
FactoryNew ==
  SessionNew(TRUE, <<"external">>)

\* Operation::Schedule and GetPromise: the descriptor takes a strong reference on the
\* wrapper's handle, creates the promise and posts Begin to the native-world context.
OperationSchedule(k, w, m) ==
  /\ FreeOps # {}
  /\ LET o == Lowest(FreeOps)
     IN /\ ops' = [ops EXCEPT ![o] =
              [kind |-> k, w |-> w, st |-> "scheduled", error |-> NoError,
               promise |-> "pending", value |-> "none", resolves |-> 0, rejects |-> 0,
               acquired |-> 1, released |-> 0, resultCalls |-> 0, script |-> <<>>]]
        /\ refcount' = refcount + 1
        /\ glibPending' = Append(glibPending, [t |-> "begin", id |-> o])
  /\ lastMethod' = m
  /\ thrown' = "none"
  /\ retval' = "promise"
  /\ UNCHANGED <<nativeRef, wrappers, monitor, increases, decreases>>
  /\ UNCHANGED <<pending_, uvRest, usageVars, runtimeVars, registryVars, portVars>>

\* A plausible slip: operation->Schedule(isolate, wrapper) called a second time.
DetachScheduledTwice(w) ==
  /\ wrappers[w].st = "alive"
  /\ FreeOps # {}
  /\ LET o == Lowest(FreeOps)
     IN /\ ops' = [ops EXCEPT ![o] =
              [kind |-> "detach", w |-> w, st |-> "scheduled",
               error |-> NoError, promise |-> "pending", value |-> "none",
               resolves |-> 0, rejects |-> 0, acquired |-> 2, released |-> 0,
               resultCalls |-> 0, script |-> <<>>]]
        /\ refcount' = refcount + 2
        /\ glibPending' = glibPending \o <<[t |-> "begin", id |-> o],
                                            [t |-> "begin", id |-> o]>>
  /\ lastMethod' = "detach"
  /\ thrown' = "none"
  /\ retval' = "promise"
  /\ UNCHANGED <<nativeRef, wrappers, monitor, increases, decreases>>
  /\ UNCHANGED <<pending_, uvRest, usageVars, runtimeVars, registryVars, portVars>>

\* Session::Detach
Detach(w) ==
  /\ wrappers[w].st = "alive"
  /\ OperationSchedule("detach", w, "detach")

\* A plausible slip: the second argument not checked.
CreateScriptArgsOkFirstOnly(args) ==
  ~(Len(args) < 2 \/ ~(args[1] = "string" \/ args[1] = "null"))

\* Session::CreateScript: !(args.Length() < 2 ||
\*   !(args[0]->IsString() || args[0]->IsNull()) || !args[1]->IsString())
CreateScriptArgsOk(args) ==
  ~(\/ Len(args) < 2
    \/ ~(args[1] = "string" \/ args[1] = "null")
    \/ ~(args[2] = "string"))

\* Session::CreateScript
CreateScript(w, args) ==
  /\ wrappers[w].st = "alive"
  /\ IF ~CreateScriptArgsOk(args)
       THEN ThrowTypeError("createScript")
       ELSE OperationSchedule("createScript", w, "createScript")

\* Session::EnableDebugger: !(args.Length() < 1 || !args[0]->IsNumber())
EnableDebuggerArgsOk(args) == ~(Len(args) < 1 \/ ~(args[1] = "number"))

\* Session::EnableDebugger
EnableDebugger(w, args) ==
  /\ wrappers[w].st = "alive"
  /\ IF ~EnableDebuggerArgsOk(args)
       THEN ThrowTypeError("enableDebugger")
       ELSE OperationSchedule("enableDebugger", w, "enableDebugger")

\* guint16: the values of the port are taken modulo this
PortModulus == 65536
\* the number arguments tried: the first and the last PortSpan + 1 values of the port
\* range, each shifted by up to MaxWraps times the modulus in either direction
PortSpan == 8
MaxWraps == 2

PortInputs ==
  {k * PortModulus + r :
     k \in (0 - MaxWraps)..MaxWraps,
     r \in (0..PortSpan) \cup ((PortModulus - 1 - PortSpan)..(PortModulus - 1))}

\* A plausible slip: a conversion that saturates at the ends of the port range.
ToPortSaturating(v) ==
  IF v < 0 THEN 0 ELSE IF v > PortModulus - 1 THEN PortModulus - 1 ELSE v

\* static_cast<guint16>(args[0]->ToInteger()->Value()): the low 16 bits of the int64_t
ToPort(v) == v % PortModulus

\* Session::EnableDebugger called with one number argument whose integer value is
\* portArg: the argument check, the conversion, new EnableDebuggerOperation(port).
EnableDebuggerNumber ==
  /\ portResult = "none"
  /\ IF ~EnableDebuggerArgsOk(<<"number">>)
       THEN /\ portResult' = "TypeError"
            /\ port_' = port_
       ELSE /\ portResult' = "scheduled"
            /\ port_' = ToPort(portArg)
  /\ UNCHANGED portArg
  /\ UNCHANGED <<uvVars, usageVars, runtimeVars, registryVars, sessionVars>>

\* Session::DisableDebugger
DisableDebugger(w) ==
  /\ wrappers[w].st = "alive"
  /\ OperationSchedule("disableDebugger", w, "disableDebugger")

\* what frida_session_*_finish can report: detach_finish takes no GError**
NativeOutcomes(k) ==
  IF k = "detach" THEN {NoError} ELSE {NoError} \cup NativeErrors

\* The End hooks: DetachOperation::End passes no error to record; the other three
\* hand `error` to the finish function.
EndError(k, outcome) ==
  IF k = "detach" THEN NoError ELSE outcome

\* A plausible slip: CreateScriptOperation::Result returns Undefined like its siblings.
ResultAlwaysUndefined(k) == "undefined"

\* The Result hooks: Undefined(isolate) for detach, enableDebugger and
\* disableDebugger; the wrapper made by Script::New for createScript.
Result(k) ==
  IF k = "createScript" THEN "Script" ELSE "undefined"

\* Script::Script, the constructor of the wrapper that Script::New makes around the
\* handle: it takes its own reference on the handle.
ScriptCtor(rc) == rc + 1

\* A plausible slip: the operation's reference is dropped before the wrapper is made.
ScriptResultCountsUnrefFirst(rc) == <<rc - 1, ScriptCtor(rc - 1)>>

\* CreateScriptOperation::Result: the reference count of script_ after
\* Script::New(script_, runtime_) and then after g_object_unref(script_).
ScriptResultCounts(rc) == <<ScriptCtor(rc), ScriptCtor(rc) - 1>>

\* CreateScriptOperation::End: script_ = frida_session_create_script_finish(...), which
\* hands the caller one reference on the new script, or NULL with the error set.
ScriptFinish(k, outcome) ==
  IF k = "createScript" /\ outcome = NoError THEN <<1>> ELSE <<>>

\* The native thread runs the head of its queue: an operation's Begin (the native
\* begin entry point is called with OnReady), or the g_object_unref that
\* Session::~Session posted with frida_unref.
GLibRun ==
  /\ glibPending # <<>>
  /\ glibPending' = Tail(glibPending)
  /\ LET it == Head(glibPending) IN
       IF it.t = "begin"
         THEN /\ ops' = [ops EXCEPT ![it.id].st = "begun"]
              /\ UNCHANGED <<refcount, wrappers>>
         ELSE /\ refcount' = refcount - 1
              /\ wrappers' = [wrappers EXCEPT ![it.id].st = "released",
                                              ![it.id].unrefs = @ + 1,
                                              ![it.id].unrefOn = "native"]
              /\ ops' = ops
  /\ NoCall
  /\ UNCHANGED <<nativeRef, monitor, increases, decreases>>
  /\ UNCHANGED <<pending_, uvRest, usageVars, runtimeVars, registryVars, portVars>>

\* The native library completes the operation on the native thread: OnReady runs the
\* End hook, which records the error if any, and posts the completion to the
\* script-world context.
NativeReady(o, outcome) ==
  /\ ops[o].st = "begun"
  /\ outcome \in NativeOutcomes(ops[o].kind)
  /\ ops' = [ops EXCEPT ![o].st = "ended",
                        ![o].error = EndError(ops[o].kind, outcome),
                        ![o].script = ScriptFinish(ops[o].kind, outcome)]
  /\ pending_' = Enqueue(pending_, [t |-> "complete", id |-> o])
  /\ NoCall
  /\ UNCHANGED <<glibPending, refcount, nativeRef, wrappers, monitor, increases,
                 decreases>>
  /\ UNCHANGED <<uvRest, usageVars, runtimeVars, registryVars, portVars>>

\* The completion on the script thread: reject with the error's message, or resolve
\* with the Result hook's value; then release the handle and destroy the descriptor.
Deliver(o) ==
  /\ ops' = [ops EXCEPT ![o] =
       IF ops[o].error # NoError
         THEN [@ EXCEPT !.st = "done", !.promise = "rejected", !.value = ops[o].error,
                        !.rejects = @ + 1, !.released = @ + 1]
         ELSE [@ EXCEPT !.st = "done", !.promise = "resolved",
                        !.value = Result(ops[o].kind), !.resolves = @ + 1,
                        !.resultCalls = @ + 1, !.released = @ + 1,
                        !.script = IF ops[o].kind = "createScript"
                                     THEN @ \o ScriptResultCounts(@[Len(@)])
                                     ELSE @]]
  /\ refcount' = refcount - 1
  /\ UNCHANGED <<monitor, decreases, usageVars>>

\* A plausible slip: the handler lowers the counter on every signal it is run for.
MonitorFireEverySignal(w) ==
  /\ monitor' = [monitor EXCEPT ![w].st = "done", ![w].downs = @ + 1, ![w].runs = @ + 1]
  /\ SetUsage(DecreaseUsage(Usage))
  /\ decreases' = decreases + 1
  /\ UNCHANGED <<ops, refcount>>

\* The monitor's end-of-life callback on the script thread: lower the usage counter
\* and detach, once.
MonitorFire(w) ==
  /\ IF monitor[w].st = "enabled"
       THEN /\ monitor' = [monitor EXCEPT ![w].st = "done", ![w].downs = @ + 1,
                                          ![w].runs = @ + 1]
            /\ SetUsage(DecreaseUsage(Usage))
            /\ decreases' = decreases + 1
       ELSE /\ monitor' = [monitor EXCEPT ![w].runs = @ + 1]
            /\ UNCHANGED <<decreases, usageVars>>
  /\ UNCHANGED <<ops, refcount>>

\* The script thread runs the head of the script-world queue (ProcessPending).
UVRun ==
  /\ pending_ # <<>>
  /\ pending_' = Tail(pending_)
  /\ LET it == Head(pending_) IN
       IF it.t = "complete" THEN Deliver(it.id) ELSE MonitorFire(it.id)
  /\ NoCall
  /\ UNCHANGED <<glibPending, nativeRef, wrappers, increases>>
  /\ UNCHANGED <<uvRest, runtimeVars, registryVars, portVars>>

\* how many "detached" emissions of one session can be posted and not yet run
MaxSignals == 2

\* The native session emits "detached" while the monitor is connected; the monitor's
\* handler is posted to the script-world context. A second emission can be posted
\* before the script thread has run the handler of the first.
NativeDetached(w) ==
  /\ monitor[w].st = "enabled"
  /\ Cardinality({n \in 1..Len(pending_) : pending_[n] = [t |-> "signal", id |-> w]})
       < MaxSignals
  /\ pending_' = Enqueue(pending_, [t |-> "signal", id |-> w])
  /\ NoCall
  /\ UNCHANGED <<glibPending, refcount, nativeRef, wrappers, monitor, increases,
                 decreases, ops>>
  /\ UNCHANGED <<uvRest, usageVars, runtimeVars, registryVars, portVars>>

\* Session::~Session when the wrapper is collected: events_.Reset() and
\* frida_unref(handle_), which posts the g_object_unref to the native thread. A
\* wrapper that an operation in flight still refers to is not collected.
SessionDtor(w) ==
  /\ wrappers[w].st = "alive"
  /\ \A o \in OpIds : InFlight(o) => ops[o].w # w
  /\ wrappers' = [wrappers EXCEPT ![w].st = "destroyed"]
  /\ glibPending' = Append(glibPending, [t |-> "unref", id |-> w])
  /\ NoCall
  /\ UNCHANGED <<refcount, nativeRef, monitor, increases, decreases, ops>>
  /\ UNCHANGED <<pending_, uvRest, usageVars, runtimeVars, registryVars, portVars>>

\* The native library gives up its own reference on the handle.
NativeRelease ==
  /\ nativeRef
  /\ nativeRef' = FALSE
  /\ refcount' = refcount - 1
  /\ NoCall
  /\ UNCHANGED <<glibPending, wrappers, monitor, increases, decreases, ops>>
  /\ UNCHANGED <<pending_, uvRest, usageVars, runtimeVars, registryVars, portVars>>

\* ------------------------------------------------------- specifications
ProducerStep(p) ==
  \/ ScheduleLock(p)
  \/ ScheduleAppend(p)
  \/ ScheduleSend(p)
  \/ PerformLock(p)
  \/ PerformCheck(p)
  \/ PerformWoken(p)

ScriptStep ==
  \/ AsyncCallback
  \/ PPLock
  \/ PPCheck
  \/ NestedLock
  \/ NestedAppend
  \/ NestedSend
  \/ WorkReturns
  \/ ClosureLock
  \/ ClosureSignal
  \/ PPRelock

\* Session::EnableDebugger has not been called
InitPort ==
  /\ portArg = 0
  /\ port_ = 0
  /\ portResult = "none"

Init == InitUV /\ InitRuntime /\ InitRegistry /\ InitPort /\ InitSession

Next ==
  \/ \E p \in Producers : BeginCall(p, "plain")
  \/ \E p \in Producers : BeginCall(p, "perform")
  \/ \E p \in Producers : ProducerStep(p)
  \/ NestedBegin("plain")
  \/ ScriptStep
  \/ DtorStep

Spec == Init /\ [][Next]_vars

\* The same program with a work item that calls Perform on the context it runs on,
\* which the contract of Perform forbids and the code does not prevent.
MisuseNext ==
  \/ Next
  \/ NestedBegin("perform")
  \/ SelfPerformLock
  \/ SelfPerformCheck

MisuseSpec == Init /\ [][MisuseNext]_vars

\* Both threads are scheduled by the operating system and the script loop keeps
\* running: a step that stays possible is eventually taken. Nothing obliges a producer
\* to start a call, nor the runtime
\* to be destroyed; a destructor that was entered runs to its end.
FairSpec ==
  /\ Spec
  /\ WF_vars(ScriptStep)
  /\ \A p \in Producers : WF_vars(ProducerStep(p))
  /\ WF_vars(dtorStep > 0 /\ DtorStep)

SessionNext ==
  \/ FactoryNew
  \/ \E c \in BOOLEAN, args \in ArgLists : SessionNew(c, args)
  \/ \E w \in WrapperIds : Detach(w)
  \/ \E w \in WrapperIds, args \in ArgLists : CreateScript(w, args)
  \/ \E w \in WrapperIds, args \in ArgLists : EnableDebugger(w, args)
  \/ \E w \in WrapperIds : DisableDebugger(w)
  \/ GLibRun
  \/ \E o \in OpIds, outcome \in {NoError} \cup NativeErrors : NativeReady(o, outcome)
  \/ UVRun
  \/ \E w \in WrapperIds : NativeDetached(w)
  \/ \E w \in WrapperIds : SessionDtor(w)
  \/ NativeRelease

SessionSpec == Init /\ [][SessionNext]_vars

\* the registry of the runtime from its construction to its destruction
RuntimeNext ==
  \/ SessionInit
  \/ \E id \in DataIds, v \in DataValues : SetDataPointer(id, v)
  \/ \E id \in DataIds : GetDataPointer(id)
  \/ DtorStep

RuntimeSpec == Init /\ [][RuntimeNext]_vars

\* enableDebugger(p) for each number p tried
PortInit ==
  /\ InitUV /\ InitRuntime /\ InitRegistry /\ InitSession
  /\ portArg \in PortInputs
  /\ port_ = 0
  /\ portResult = "none"

PortNext == EnableDebuggerNumber

PortSpec == PortInit /\ [][PortNext]_vars

\* ------------------------------------------------------------ properties

\* C1: every Schedule(f) call that has returned leads to f being invoked, and f is
\* never invoked more than once, whatever the interleaving of the producers with
\* ProcessPending and however many uv_async_send calls one loop callback absorbs;
\* the only exception is a context that is torn down first.
C1_ScheduledRunsExactlyOnce ==
  /\ [](\A i \in Items : execCount[i] <= 1)
  /\ \A i \in Items : schedReturned[i] ~> (execCount[i] = 1 \/ ~uvAlive)

\* every work item was scheduled, and each ran exactly once on a live context
C1_Witness ==
  /\ uvAlive
  /\ \A i \in Items : schedReturned[i] /\ execCount[i] = 1

\* C2: a Perform call made from a producer thread has returned only if its f has
\* run to completion on the script thread.
C2_PerformReturnsAfterWork ==
  \A i \in Items : perfReturned[i] => itemState[i] = "done"

\* two Perform calls have returned
C2_Witness ==
  \E i, j \in Items : i # j /\ perfReturned[i] /\ perfReturned[j]

\* C3: work items run in the order of their queue appends: an item has started only
\* if every item appended before it has finished.
C3_FifoOrder ==
  \A m, n \in 1..Len(appendLog) :
    (m < n /\ itemState[appendLog[n]] \in {"running", "done"})
      => itemState[appendLog[m]] = "done"

\* all items have run, and they were appended in another order than they were created
C3_Witness ==
  /\ Len(appendLog) = MaxItems
  /\ \A i \in Items : itemState[i] = "done"
  /\ \E m \in 1..Len(appendLog) : appendLog[m] # m

\* the references on the session handle that are accounted for: the native library's
\* own, one per wrapper that has not given its back, one per operation in flight
C4_ExpectedRefs ==
  (IF nativeRef THEN 1 ELSE 0)
    + Cardinality({w \in WrapperIds : wrappers[w].st \in {"alive", "destroyed"}})
    + Cardinality({o \in OpIds : InFlight(o)})

\* C4: an operation in flight has neither resolved nor rejected its promise and holds
\* the one handle reference it took; a completed operation has resolved or rejected
\* exactly once in total and has released that reference exactly once, so that the
\* handle's reference count is back at what the other owners account for.
C4_OneSettlementOneRelease ==
  /\ \A o \in OpIds :
       /\ InFlight(o) =>
            /\ ops[o].resolves = 0 /\ ops[o].rejects = 0
            /\ ops[o].acquired = 1 /\ ops[o].released = 0
       /\ ops[o].st = "done" =>
            /\ ops[o].resolves + ops[o].rejects = 1
            /\ ops[o].acquired = 1 /\ ops[o].released = 1
  /\ refcount = C4_ExpectedRefs

\* an operation has failed, and its reference was released once
C4_Witness ==
  \E o \in OpIds :
    /\ ops[o].st = "done"
    /\ ops[o].kind = "enableDebugger"
    /\ ops[o].rejects = 1
    /\ ops[o].released = 1

\* C5: a completed operation has rejected its promise, with the recorded error's
\* message, exactly if its End hook recorded an error, and then its Result hook was
\* not evaluated; otherwise it has resolved its promise with its Result hook's value:
\* a Script wrapper for createScript, undefined for the other three.
C5_RejectIffErrorRecorded ==
  \A o \in OpIds :
    ops[o].st = "done" =>
      /\ ops[o].promise = "rejected" <=> ops[o].error # NoError
      /\ ops[o].error # NoError =>
           /\ ops[o].value = ops[o].error
           /\ ops[o].resultCalls = 0
      /\ ops[o].error = NoError =>
           /\ ops[o].promise = "resolved"
           /\ ops[o].resultCalls = 1
           /\ ops[o].value =
                IF ops[o].kind = "createScript" THEN "Script" ELSE "undefined"

\* createScript has failed with "boom" and its promise was rejected with that message
C5_Witness ==
  \E o \in OpIds :
    /\ ops[o].st = "done"
    /\ ops[o].kind = "createScript"
    /\ ops[o].promise = "rejected"
    /\ ops[o].value = "boom"

C6_Inv ==
  /\ asyncRef <=> usage_count_ > 0
  /\ usage_count_ = increases - decreases

C6_Step ==
  /\ (usage_count_ = 0 /\ usage_count_' = 1) => (~asyncRef /\ asyncRef')
  /\ (usage_count_ = 1 /\ usage_count_' = 0) => (asyncRef /\ ~asyncRef')
  /\ ~(\/ usage_count_ = 0 /\ usage_count_' = 1
       \/ usage_count_ = 1 /\ usage_count_' = 0) => asyncRef' = asyncRef

\* C6: async_ is referenced against the loop exactly while the usage counter is
\* positive, starting unreferenced at 0; the reference is taken on the step from 0 to
\* 1, dropped on the step from 1 to 0, and untouched by every other step; so with as
\* many decreases as increases the handle is unreferenced.
C6_UsageTracksLoopRef == [](C6_Inv) /\ [][C6_Step]_vars

\* every wrapper that could be made was made and has reached its end of life
C6_Witness ==
  /\ increases = MaxWrappers
  /\ decreases = MaxWrappers
  /\ ~asyncRef

C7_Rejected ==
  /\ thrown' = "TypeError"
  /\ retval' = "none"
  /\ UNCHANGED <<ops, glibPending, pending_, refcount>>

\* C7: a step that is enableDebugger called without a number as first argument, or
\* createScript called with fewer than two arguments, a first argument that is
\* neither string nor null or a second that is no string, throws a type error,
\* returns no promise, and leaves the operations, both queues and the handle's
\* reference count as they were. (Every step of a bound function sets lastMethod to
\* its name, so only those steps are compared with the function's definition.)
C7_BadArgumentsThrow ==
  [][/\ (/\ lastMethod' = "enableDebugger"
         /\ \E w \in WrapperIds, args \in ArgLists :
              /\ Len(args) = 0 \/ args[1] # "number"
              /\ EnableDebugger(w, args))
          => C7_Rejected
     /\ (/\ lastMethod' = "createScript"
         /\ \E w \in WrapperIds, args \in ArgLists :
              /\ \/ Len(args) < 2
                 \/ args[1] \notin {"string", "null"}
                 \/ args[2] # "string"
              /\ CreateScript(w, args))
          => C7_Rejected]_vars

\* enableDebugger has just thrown
C7_Witness ==
  /\ lastMethod = "enableDebugger"
  /\ thrown = "TypeError"
  /\ retval = "none"

\* C8: a step that is the Session constructor invoked otherwise than as a construct
\* call with exactly one External argument throws a type error and creates no
\* wrapper, takes no handle reference, enables no monitor and leaves the usage
\* counter alone. A plain call is such a step whatever its arguments.
C8_ConstructorRejects ==
  [][(/\ lastMethod' = "Session"
      /\ \E c \in BOOLEAN, args \in ArgLists :
           /\ ~(c /\ Len(args) = 1 /\ args[1] = "external")
           /\ SessionNew(c, args))
       => /\ thrown' = "TypeError"
          /\ retval' = "none"
          /\ UNCHANGED <<wrappers, refcount, monitor, usage_count_, asyncRef,
                         increases>>]_vars

\* the constructor has just thrown, with a wrapper made earlier still alive
C8_Witness ==
  /\ lastMethod = "Session"
  /\ thrown = "TypeError"
  /\ \E w \in WrapperIds : wrappers[w].st = "alive"

\* C9: from its construction until its posted decrement has run, a wrapper has taken
\* one reference and given none back, and the handle's count is positive; afterwards
\* it has taken one and given back one, on the native thread.
C9_WrapperHoldsOneReference ==
  \A w \in WrapperIds :
    /\ wrappers[w].st \in {"alive", "destroyed"} =>
         /\ refcount > 0
         /\ wrappers[w].refs = 1
         /\ wrappers[w].unrefs = 0
    /\ wrappers[w].st = "released" =>
         /\ wrappers[w].refs = 1
         /\ wrappers[w].unrefs = 1
         /\ wrappers[w].unrefOn = "native"

\* a destroyed wrapper whose decrement is still queued holds the handle's last reference
C9_Witness ==
  /\ ~nativeRef
  /\ refcount = 1
  /\ \E w \in WrapperIds : wrappers[w].st = "destroyed"

\* C10 as stated: the script-world context is destroyed before the native-world
\* context, so the native-world context is never gone while the script-world one lives.
C10_ScriptWorldFirst == ~glibAlive => ~uvAlive

\* C10 as the destructor has it: the native-world context is destroyed before the
\* script-world context.
C10_NativeWorldFirst == ~uvAlive => ~glibAlive

\* the destructor has run to its end
C10_Witness ==
  /\ dtorStep = Len(DtorOrder)
  /\ ~uvAlive
  /\ ~glibAlive

\* C11 as stated: when the destructor of the runtime has run to its end, every work
\* item that was appended to the script-world queue has been executed.
C11_DestructionDrains ==
  dtorStep = Len(DtorOrder) =>
    \A i \in Items : itemState[i] # "new" => itemState[i] = "done"

\* C13: a work item's own Schedule(g) is never attempted with the mutex held by the
\* script thread, appends g at the tail of the queue, g starts only after every item
\* appended before it has finished, and the drain does not return to the loop with an
\* appended g not yet executed.
C13_NestedScheduleSameDrain ==
  /\ [](spc = "n_lock" => mutex_ # "script")
  /\ [][NestedAppend => pending_' = pending_ \o <<child[curWork]>>]_vars
  /\ [](\A i \in Items :
          (child[i] # NoItem /\ itemState[child[i]] # "new") =>
             /\ itemState[child[i]] \in {"running", "done"} =>
                  \A m, n \in 1..Len(appendLog) :
                    (m < n /\ appendLog[n] = child[i]) => itemState[appendLog[m]] = "done"
             /\ spc = "loop" => itemState[child[i]] = "done")

\* a g scheduled by a running item has been executed, and a producer's item was
\* appended between that item and g
C13_Witness ==
  \E i \in Items, l, m, n \in 1..Len(appendLog) :
    /\ child[i] # NoItem
    /\ itemState[child[i]] = "done"
    /\ spc = "loop"
    /\ appendLog[l] = i
    /\ appendLog[n] = child[i]
    /\ l < m
    /\ m < n

\* C14 as stated: a Perform called by a work item on the script thread ends in a
\* diagnosis: the script thread never sits in g_cond_wait for a closure that only the
\* script thread itself could run.
C14_SelfPerformDiagnosed == spc # "sp_wait"

C18_PerformReturns ==
  (/\ spc = "loop"
   /\ ~asyncPending
   /\ pending_ = <<>>
   /\ \A p \in Producers : pc[p] \in {"idle", "p_wait"})
    => waiters = {}

\* C12 as stated: once the script-world context has been deleted, the three JSON
\* references and the constructor reference stored under "session:ctor" are reset.
C12_PersistentsReset ==
  ~uvAlive => (~jsonLive /\ ctorPersistent # "live")

\* C16: GetDataPointer(id) returns the value of the latest SetDataPointer(id, v), NULL
\* if there was none; SetDataPointer leaves what every other id reads unchanged;
\* GetDataPointer changes nothing of the registry.
C16_RegistryLastWriterWins ==
  /\ [](dataLive => \A id \in DataIds : Lookup(data_, id) = lastSet[id])
  /\ [](got # NoGet => got.value = lastSet[got.id])
  /\ [][(\E id \in DataIds : GetDataPointer(id)) => data_' = data_]_vars
  /\ [][\A id \in DataIds :
         (\E v \in DataValues : SetDataPointer(id, v)) =>
            \A other \in DataIds \ {id} : Lookup(data_', other) = Lookup(data_, other)]_vars

\* the id that Session::Init registered was set again, and a read returned the later
\* value, while an id that was never set reads NULL
C16_Witness ==
  /\ ctorPersistent = "live"
  /\ got = [id |-> "session:ctor", value |-> "p1"]
  /\ \E e \in data_ : e.key = "script:ctor" /\ e.value = "ctor"
  /\ \A e \in data_ : e.key # "device:ctor"

\* C15: every constructed wrapper has raised the usage counter once through its monitor;
\* the monitor has lowered it once if its handler has run, on the first run and not on
\* a later one; the counter is the number of monitors still enabled and the async
\* handle is referenced exactly while it is positive, so when every wrapper has been
\* constructed and has seen its end of life the counter is 0 and the handle unreferenced.
C15_MonitorRaisesAndLowersOnce ==
  /\ \A w \in WrapperIds :
       /\ monitor[w].ups = IF wrappers[w].st = "none" THEN 0 ELSE 1
       /\ monitor[w].downs = IF monitor[w].runs > 0 THEN 1 ELSE 0
       /\ monitor[w].st = "done" <=> monitor[w].runs > 0
  /\ usage_count_ = Cardinality({w \in WrapperIds : monitor[w].st = "enabled"})
  /\ asyncRef <=> usage_count_ > 0
  /\ (\A w \in WrapperIds : monitor[w].st = "done") => (usage_count_ = 0 /\ ~asyncRef)

\* every wrapper was constructed and ended, one of them with a second signal run
C15_Witness ==
  /\ \A w \in WrapperIds : monitor[w].st = "done"
  /\ \E w \in WrapperIds : monitor[w].runs = MaxSignals
  /\ usage_count_ = 0
  /\ ~asyncRef

\* C19: the script handle of a createScript that succeeded is held by the operation
\* with one reference until Result; Result takes the wrapper's reference and then drops
\* the operation's, once and in that order, so the count is never zero and ends at the
\* wrapper's one reference; a createScript that failed has no script handle.
C19_ScriptReferenceHandedOver ==
  \A o \in OpIds :
    LET t == ops[o].script IN
      /\ \A n \in 1..Len(t) : t[n] >= 1
      /\ (ops[o].kind # "createScript" \/ ops[o].error # NoError) => t = <<>>
      /\ (ops[o].kind = "createScript" /\ ops[o].st = "ended" /\ ops[o].error = NoError)
           => t = <<1>>
      /\ (ops[o].kind = "createScript" /\ ops[o].st = "done" /\ ops[o].error = NoError)
           => /\ ops[o].value = "Script"
              /\ t[Len(t)] = 1
              /\ Cardinality({n \in 2..Len(t) : t[n] < t[n - 1]}) = 1
              /\ Cardinality({n \in 2..Len(t) : t[n] > t[n - 1]}) = 1
              /\ \A n \in 2..Len(t) :
                   t[n] < t[n - 1] => \E m \in 2..(n - 1) : t[m] > t[m - 1]

\* a createScript has resolved with its Script wrapper
C19_Witness ==
  \E o \in OpIds :
    /\ ops[o].kind = "createScript"
    /\ ops[o].st = "done"
    /\ ops[o].promise = "resolved"
    /\ Len(ops[o].script) > 1

\* C20: enableDebugger(p) with an integer p is not rejected, and the port of the
\* operation is the one value in 0..65535 that differs from p by a multiple of 2^16:
\* p itself when p is in that range, another number when it is not.
C20_PortWraps ==
  portResult # "none" =>
    /\ portResult = "scheduled"
    /\ port_ \in 0..(PortModulus - 1)
    /\ \E k \in (0 - MaxWraps - 1)..(MaxWraps + 1) : portArg = port_ + k * PortModulus
    /\ portArg \in 0..(PortModulus - 1) => port_ = portArg
    /\ portArg \notin 0..(PortModulus - 1) => port_ # portArg

\* the number -1 was accepted and passed on as port 65535
C20_Witness ==
  /\ portResult = "scheduled"
  /\ portArg = 0 - 1
  /\ port_ = PortModulus - 1

====
